---- MODULE Spec2Model ----
(***************************************************************************)
(* Model of the rate-limited leaderboard cache of advent-of-code-          *)
(* leaderboard: api::Client::fetch (src/src/api.rs) and its two callers in  *)
(* src/src/main.rs, the server's request handlers (which share the client   *)
(* behind a tokio Mutex) and the console loop (one sequential caller).      *)
(*                                                                         *)
(* Time is counted in whole minutes; the code compares Durations, so a     *)
(* minute here stands for any finer unit.  The wall clock only advances.   *)
(* fetch suspends only at `.send().await` / `.text().await`; the code      *)
(* before and after the suspension runs without yielding, and is one       *)
(* action each (Begin, Complete).                                          *)
(***************************************************************************)
EXTENDS Integers, Sequences, FiniteSets, TLC

(* ------------------------------ bounds -------------------------------- *)

\* Latest clock reading explored.
MaxTime == 15

\* Number of fetch calls (started or finished) explored in one run.
MaxCalls == 2

\* Clock advances: to just below and to exactly MIN_FETCH_INTERVAL after time 0.
Ticks == {14, 15}

\* Request handlers of the server; in console mode only "h1" (main) runs.
Procs == {"h1", "h2"}

\* Leaderboards of the configuration: (year, id).
Keys == {<<2024, 7>>, <<2023, 7>>}

\* Modification times of cache files left by earlier runs (the clock starts at 0).
InitMtimes == {-14}

(* ----------------------------- documents ------------------------------ *)

\* Two versions of the leaderboard JSON and an upstream error / login page.
\* A body is a sequence of chunks, so that a write can stop between them.
DocA == <<"{a", "}">>
DocB == <<"{b", "}">>
ErrPage == <<"<h", ">">>

\* Bodies a completed HTTP exchange can deliver (the status is never inspected).
Bodies == {DocA, DocB, ErrPage}

\* serde_json::from_str::<Leaderboard>: succeeds on a complete JSON document only.
IsJson(s) == Len(s) = 2 /\ s[1] \in {"{a", "{b"} /\ s[2] = "}"

\* What a failed write_all can leave behind: a proper prefix of the buffer.
Prefixes(s) == {SubSeq(s, 1, n) : n \in 0..(Len(s) - 1)}

(* ------------------------------- paths -------------------------------- *)

Digit(d) == <<"0", "1", "2", "3", "4", "5", "6", "7", "8", "9">>[d + 1]

RECURSIVE NatStr(_)
NatStr(n) == IF n < 10 THEN <<Digit(n)>> ELSE NatStr(n \div 10) \o <<Digit(n % 10)>>

\* Display of an i32 / usize.
IntStr(n) == IF n < 0 THEN <<"-">> \o NatStr(-n) ELSE NatStr(n)

\* Mutant: the file named after the id alone.
CachePathNoYear(k) == <<"aoc-leaderboard-">> \o IntStr(k[2]) \o <<".json">>

\* cache_dir.join(format!("aoc-leaderboard-{}-{}.json", year, id))
CachePath(k) == <<"aoc-leaderboard-">> \o IntStr(k[1]) \o <<"-">> \o IntStr(k[2]) \o <<".json">>

\* The cache file of each configured leaderboard.
PathOf == [k \in Keys |-> CachePath(k)]

Paths == {PathOf[k] : k \in Keys}

(* ------------------------------- state -------------------------------- *)

VARIABLES
    mode,   \* "server" | "console": the subcommand the process was started with
    now,    \* SystemTime::now(), in minutes
    mutex,  \* holder of the Mutex around the shared client, or NoOne
    file,   \* the cache directory: path -> [exists, content, mtime]
    pc,     \* where each caller stands: "idle", "lock", "fetch", "await", "exit"
    cur,    \* the fetch call each caller is executing
    last,   \* the fetch call that returned most recently
    log,    \* a summary of every fetch call that has returned, in order of return
    calc    \* an evaluation of release_time or score_puzzle: arguments and result

vars == <<mode, now, mutex, file, pc, cur, last, log, calc>>

NoOne == "none"

NoFile == [exists |-> FALSE, content |-> <<>>, mtime |-> 0]

\* What is recorded of a call: the key, the clock reading t of its cache check, the
\* file pre it found and post it left, whether the lookup found the file (found),
\* whether the cache was used (hit), the requests sent (nsent), how the exchange
\* ended (net), the body received (response), the text handed to the decoder (json),
\* the steps that failed (failed), and the result: Ok(val) or Err.
NoCall ==
    [key |-> <<0, 0>>, t |-> 0, pre |-> NoFile, found |-> FALSE, hit |-> FALSE,
     nsent |-> 0, net |-> "none", response |-> <<>>, json |-> <<>>, failed |-> {},
     done |-> FALSE, ok |-> FALSE, val |-> <<>>, post |-> NoFile]

Brief(rec) ==
    [key |-> rec.key, t |-> rec.t,
     lookupFailed |-> "metadata" \in rec.failed, nsent |-> rec.nsent,
     ok |-> rec.ok, val |-> rec.val, fetchedAt |-> rec.post.mtime]

\* const MIN_FETCH_INTERVAL: Duration = Duration::from_secs(15 * 60)
MIN_FETCH_INTERVAL == 15

\* Mutant: a modification time later than the clock taken as a stale entry.
LastModifiedElseStale(t, mtime) == IF t >= mtime THEN t - mtime ELSE MIN_FETCH_INTERVAL

\* SystemTime::now().duration_since(mtime).unwrap_or(Duration::ZERO)
LastModified(t, mtime) == IF t >= mtime THEN t - mtime ELSE 0

\* Mutants of the freshness test: the comparison inverted; the cache never used.
UseCachedJsonInverted(metaOk, age) == metaOk /\ age >= MIN_FETCH_INTERVAL
UseCachedJsonNever(metaOk, age) == FALSE

\* Mutant: an entry of exactly MIN_FETCH_INTERVAL still counted as fresh.
UseCachedJsonInclusive(metaOk, age) == metaOk /\ age <= MIN_FETCH_INTERVAL

\* let use_cached_json = if let Ok(m) = metadata() { last_modified < MIN_FETCH_INTERVAL } else { false }
UseCachedJson(metaOk, age) == metaOk /\ age < MIN_FETCH_INTERVAL

\* No evaluation of the scoring functions: they do not touch the cache.
NoCalc == [fn |-> "none"]

Active == {p \in Procs : pc[p] \notin {"idle", "exit"}}

Init ==
    /\ mode \in {"server", "console"}
    /\ now = 0
    /\ mutex = NoOne
    /\ file \in [Paths -> {NoFile} \cup
                  {[exists |-> TRUE, content |-> DocA, mtime |-> m] : m \in InitMtimes}]
    /\ pc = [p \in Procs |-> "idle"]
    /\ cur = [p \in Procs |-> NoCall]
    /\ last = NoCall
    /\ log = <<>>
    /\ calc = NoCalc

(* ------------------------------ actions ------------------------------- *)

\* The wall clock advances.
Tick ==
    /\ \E d \in Ticks : now + d <= MaxTime /\ now' = now + d
    /\ UNCHANGED <<mode, mutex, file, pc, cur, last, log, calc>>

\* A caller asks for leaderboard k: a request handler of the server (get_leaderboard),
\* or the next iteration of the console loop of main.
Request(p, k) ==
    /\ pc[p] = "idle"
    /\ mode = "console" => p = "h1"
    /\ Len(log) + Cardinality(Active) < MaxCalls
    /\ pc' = [pc EXCEPT ![p] = IF mode = "server" THEN "lock" ELSE "fetch"]
    /\ cur' = [cur EXCEPT ![p] = [NoCall EXCEPT !.key = k]]
    /\ UNCHANGED <<mode, now, mutex, file, last, log, calc>>

\* Mutant: the client shared without mutual exclusion.
LockFreeAlways == TRUE

\* client.lock().await completes only while nobody holds the guard.
LockFree == mutex = NoOne

\* Mutant: the guard handed out without waiting for its holder.
LockBarging(p) ==
    /\ pc[p] = "lock"
    /\ mutex' = p
    /\ pc' = [pc EXCEPT ![p] = "fetch"]
    /\ UNCHANGED <<mode, now, file, cur, last, log, calc>>

Lock(p) ==
    /\ pc[p] = "lock"
    /\ LockFree
    /\ mutex' = p
    /\ pc' = [pc EXCEPT ![p] = "fetch"]
    /\ UNCHANGED <<mode, now, file, cur, last, log, calc>>

\* Mutant: the guard kept when fetch returns Err.
ReturnKeepsGuardOnErr(p, rec, f) ==
    LET r == [rec EXCEPT !.done = TRUE, !.post = f[PathOf[rec.key]]]
    IN /\ file' = f
       /\ last' = r
       /\ log' = Append(log, Brief(r))
       /\ cur' = [cur EXCEPT ![p] = NoCall]
       /\ mutex' = IF mode = "server" /\ rec.ok THEN NoOne ELSE mutex
       /\ pc' = [pc EXCEPT ![p] = IF mode = "console" /\ ~rec.ok THEN "exit" ELSE "idle"]
       /\ UNCHANGED <<mode, now, calc>>

\* fetch returns rec (Ok or Err) leaving the cache directory f: the guard is dropped;
\* in console mode `?` ends main on Err.
Return(p, rec, f) ==
    LET r == [rec EXCEPT !.done = TRUE, !.post = f[PathOf[rec.key]]]
    IN /\ file' = f
       /\ last' = r
       /\ log' = Append(log, Brief(r))
       /\ cur' = [cur EXCEPT ![p] = NoCall]
       /\ mutex' = IF mode = "server" THEN NoOne ELSE mutex
       /\ pc' = [pc EXCEPT ![p] = IF mode = "console" /\ ~rec.ok THEN "exit" ELSE "idle"]
       /\ UNCHANGED <<mode, now, calc>>

\* `?` on a failed step: fetch returns Err.
Fail(p, rec, step, f) == Return(p, [rec EXCEPT !.failed = @ \cup {step}, !.ok = FALSE], f)

\* Line 78: Ok(serde_json::from_str(&json_str)?)
Decode(p, rec, f) ==
    IF IsJson(rec.json)
    THEN Return(p, [rec EXCEPT !.ok = TRUE, !.val = rec.json], f)
    ELSE Fail(p, rec, "decode", f)

\* Lines 47-49: the cached file is read (read_to_string(..)?) and decoded.
UseCache(p, rec) ==
    \/ Decode(p, [rec EXCEPT !.json = rec.pre.content], file)
    \/ Fail(p, rec, "read", file)

\* Lines 59-67: the client is built (build()?) and the request is sent; fetch
\* suspends until the exchange ends.
SendRequest(p, rec) ==
    \/ /\ pc' = [pc EXCEPT ![p] = "await"]
       /\ cur' = [cur EXCEPT ![p] = [rec EXCEPT !.nsent = @ + 1]]
       /\ UNCHANGED <<mode, now, mutex, file, last, log, calc>>
    \/ Fail(p, rec, "build", file)

\* Lines 33-58: fetch starts. The cache file is looked up: metadata() can fail although
\* the file exists (meta = "ioerror"), and modified() can fail (modOk = FALSE).
Begin(p) ==
    /\ pc[p] = "fetch"
    /\ LET f == file[PathOf[cur[p].key]]
       IN \E meta \in {"ok", "ioerror"}, modOk \in BOOLEAN :
            LET metaOk == f.exists /\ meta = "ok"
                age == LastModified(now, f.mtime)
                rec == [cur[p] EXCEPT !.t = now, !.pre = f, !.found = metaOk,
                                      !.failed = IF f.exists /\ meta = "ioerror"
                                                 THEN {"metadata"} ELSE {}]
            IN /\ ~metaOk => modOk
               /\ ~f.exists => meta = "ok"
               /\ IF ~modOk THEN Fail(p, rec, "modified", file)
                  ELSE IF UseCachedJson(metaOk, age)
                       THEN UseCache(p, [rec EXCEPT !.hit = TRUE])
                       ELSE SendRequest(p, rec)

\* Mutants of the error path of the request: the stale file served instead; the
\* request sent once more.
SendErrorServeStale(p) ==
    LET rec == [cur[p] EXCEPT !.net = "failed", !.failed = @ \cup {"send"}]
    IN IF rec.pre.exists
       THEN Return(p, [rec EXCEPT !.ok = TRUE, !.val = rec.pre.content], file)
       ELSE Return(p, rec, file)
SendErrorRetry(p) ==
    LET rec == [cur[p] EXCEPT !.net = "failed", !.failed = @ \cup {"send"}]
    IN IF rec.nsent < 2
       THEN /\ cur' = [cur EXCEPT ![p] = [rec EXCEPT !.nsent = @ + 1]]
            /\ UNCHANGED <<mode, now, mutex, file, pc, last, log, calc>>
       ELSE Return(p, rec, file)

\* Lines 66-69: `.send().await?` or `.text().await?` yields Err: fetch returns it.
SendError(p) == Fail(p, [cur[p] EXCEPT !.net = "failed"], "send", file)

\* Mutant: a failed write_all ignored.
WriteErrorIgnored(p, rec, f) ==
    Decode(p, [rec EXCEPT !.json = rec.response, !.failed = @ \cup {"write"}], f)

\* Line 73: `f.write_all(..)?` yields Err: fetch returns it, the file stays as far as written.
WriteError(p, rec, f) == Fail(p, rec, "write", f)

\* Lines 71-78: the body b is saved in the cache and decoded. File::create creates or
\* truncates the file; write_all writes the whole body or fails part-way.
Save(p, rec) ==
    LET path == PathOf[rec.key]
        written(c) == [file EXCEPT ![path] = [exists |-> TRUE, content |-> c, mtime |-> now]]
    IN \/ Fail(p, rec, "create", file)
       \/ \E part \in Prefixes(rec.response) : WriteError(p, rec, written(part))
       \/ Decode(p, [rec EXCEPT !.json = rec.response], written(rec.response))

\* Lines 60-78: the exchange ends and fetch resumes. The status of the response is
\* not inspected: the body of a non-success or redirected response (net = "status")
\* is taken like a document.
Complete(p) ==
    /\ pc[p] = "await"
    /\ \/ SendError(p)
       \/ \E b \in Bodies :
            Save(p, [cur[p] EXCEPT !.response = b,
                                   !.net = IF b = ErrPage THEN "status" ELSE "ok"])

Next ==
    \/ Tick
    \/ \E p \in Procs, k \in Keys : Request(p, k)
    \/ \E p \in Procs : Lock(p)
    \/ \E p \in Procs : Begin(p)
    \/ \E p \in Procs : Complete(p)

Spec == Init /\ [][Next]_vars

(* ------------------------------ claims -------------------------------- *)

\* Age of the entry a call found, as the code computes it.
Age(c) == LastModified(c.t, c.pre.mtime)

\* Callers suspended inside fetch with their request in flight.
InFlight == {p \in Procs : pc[p] = "await"}

\* The calls that sent a request, in the order of their requests: those that have
\* returned (log) and, after them, those in flight.
Sent(i) == log[i].nsent > 0

\* C1: at every moment at most one network request per key is in flight.
C1_OneInFlightPerKey ==
    \A k \in Keys : Cardinality({p \in InFlight : cur[p].key = k}) <= 1

\* C1 witness: one handler has a request for a key in flight while another handler
\* that asked for the same key (whose entry was missing or stale) waits for the lock.
C1_Witness ==
    \E p, q \in Procs :
        /\ mode = "server" /\ pc[p] = "await" /\ pc[q] = "lock"
        /\ cur[p].key = cur[q].key
        /\ ~(cur[p].found /\ Age(cur[p]) < MIN_FETCH_INTERVAL)

\* C2 (as claimed): any two network requests for the same key are at least
\* MIN_FETCH_INTERVAL apart, also when fetch is called again after a failed fetch.
\* Stated for later calls that can look the entry up.
C2_RequestsSpaced ==
    /\ \A i, j \in 1..Len(log) :
         (i < j /\ Sent(i) /\ Sent(j) /\ log[i].key = log[j].key /\ ~log[j].lookupFailed)
            => log[j].t - log[i].t >= MIN_FETCH_INTERVAL
    /\ \A i \in 1..Len(log), p \in InFlight :
         (Sent(i) /\ log[i].key = cur[p].key /\ cur[p].failed = {})
            => cur[p].t - log[i].t >= MIN_FETCH_INTERVAL

C4_OneRequestPerRefresh ==
    mode = "server" =>
        /\ \A i, j \in 1..Len(log) :
             (/\ i < j /\ log[i].key = log[j].key /\ log[i].t = log[j].t
              /\ ~log[i].lookupFailed /\ Sent(i) /\ ~log[j].lookupFailed)
                => log[j].nsent = 0
        /\ \A i \in 1..Len(log), p \in InFlight :
             ~(/\ log[i].key = cur[p].key /\ log[i].t = cur[p].t
               /\ ~log[i].lookupFailed /\ Sent(i) /\ cur[p].failed = {})

\* C5 (as claimed): a fetch that returns an error leaves the entry of its key as it was.
C5_ErrorLeavesEntry ==
    (last.done /\ ~last.ok) => last.post = last.pre

\* C6: a call that found a stale entry and whose request failed returns an error,
\* not the stale payload.
C6_StaleNotServed ==
    (/\ last.done /\ last.found /\ Age(last) >= MIN_FETCH_INTERVAL
     /\ last.net = "failed")
        => (~last.ok /\ last.val = <<>>)

\* C6 witness: such a call has returned its error, the stale file still in place.
C6_Witness ==
    /\ last.done /\ last.found /\ Age(last) >= MIN_FETCH_INTERVAL
    /\ last.net = "failed" /\ ~last.ok
    /\ last.post = last.pre /\ last.pre.content = DocA

\* C7 (as claimed): a reader of the cache sees a complete payload, the old one or the
\* new one, never an empty or partly written one.
C7_ReaderSeesCompleteEntry ==
    (last.done /\ last.hit /\ "read" \notin last.failed) => last.json \in Bodies

\* No call of log[i]'s key that returned after log[i], up to and including log[j],
\* failed to look the entry up.
LookupsOk(i, j) ==
    \A m \in (i + 1)..j : log[m].key = log[i].key => ~log[m].lookupFailed

C10_NoRetry ==
    /\ \A p \in Procs : cur[p].nsent <= 1
    /\ last.nsent <= 1
    /\ (last.done /\ last.net = "failed") =>
            (last.nsent = 1 /\ ~last.ok /\ last.post = last.pre)

\* C10 witness: a call whose single request failed has returned the error.
C10_Witness ==
    last.done /\ last.net = "failed" /\ last.nsent = 1 /\ ~last.ok

(* ------------------------------ scoring (utils.rs) --------------------- *)
(* release_time and score_puzzle are pure functions.  Durations are whole  *)
(* seconds.  A usize is 64 bits wide: the value hi * 2^64 + lo is kept as   *)
(* the pair of hi and lo, with lo a small (possibly negative) integer.     *)

MaxDays == 17
MaxEarly == 2
Remainders == {0, 1, 24 * 60 * 60 - 1}
DayCounts == (0..MaxDays) \cup {100}
Durations ==
    {d * (24 * 60 * 60) + r : d \in DayCounts, r \in Remainders}
        \cup {-(d * (24 * 60 * 60) + r) : d \in 0..MaxEarly, r \in Remainders}
\* Overflow checks are on in a debug build and off in a release build.
Builds == {"debug", "release"}
Years == {2015, 2024, 300000}
MaxDay == 27

NUM_DAYS_WITHOUT_PENALTY == 7
MAX_SCORE == 50
MIN_SCORE == 10
PENALTY_PER_DAY == 5

\* Duration::num_days: whole days, truncated toward zero.
NumDays(secs) ==
    IF secs >= 0 THEN secs \div (24 * 60 * 60)
                 ELSE -((-secs) \div (24 * 60 * 60))

\* `as usize` of an i64: a negative n becomes 2^64 + n.
AsUsize(n) == [hi |-> IF n < 0 THEN 1 ELSE 0, lo |-> n]

\* u <= k for a small constant k.
UsizeLe(u, k) == u.hi = 0 /\ u.lo <= k

\* u - k, used only where u > k.
UsizeSub(u, k) == [u EXCEPT !.lo = @ - k]

\* The exact product u * k exceeds 64 bits exactly when u is 2^64 + lo with
\* a small negative lo (k >= 2).
MulOverflows(u, k) == u.hi * k >= 1

\* u * k modulo 2^64: k * (2^64 + lo) is congruent to 2^64 + k * lo.
WrappingMul(u, k) == [hi |-> IF u.hi > 0 THEN 1 ELSE 0, lo |-> u.lo * k]

\* a.saturating_sub(u) for a small a.
SaturatingSub(a, u) == IF u.hi > 0 \/ u.lo >= a THEN 0 ELSE a - u.lo

Min(a, b) == IF a >= b THEN b ELSE a

Max(a, b) == IF a >= b THEN a ELSE b

Panic == [panic |-> TRUE, value |-> 0]
Value(v) == [panic |-> FALSE, value |-> v]

ScorePuzzleNoFloor(completion_time, build) ==
    LET num_days == AsUsize(NumDays(completion_time))
        penalty_days == UsizeSub(num_days, NUM_DAYS_WITHOUT_PENALTY)
    IN  IF UsizeLe(num_days, NUM_DAYS_WITHOUT_PENALTY)
        THEN Value(MAX_SCORE)
        ELSE IF MulOverflows(penalty_days, PENALTY_PER_DAY) /\ build = "debug"
             THEN Panic
             ELSE Value(SaturatingSub(MAX_SCORE,
                            WrappingMul(penalty_days, PENALTY_PER_DAY)))

ScorePuzzle(completion_time, build) ==
    LET num_days == AsUsize(NumDays(completion_time))
        penalty_days == UsizeSub(num_days, NUM_DAYS_WITHOUT_PENALTY)
    IN  IF UsizeLe(num_days, NUM_DAYS_WITHOUT_PENALTY)
        THEN Value(MAX_SCORE)
        ELSE IF MulOverflows(penalty_days, PENALTY_PER_DAY) /\ build = "debug"
             THEN Panic
             ELSE Value(Max(SaturatingSub(MAX_SCORE,
                                WrappingMul(penalty_days, PENALTY_PER_DAY)),
                            MIN_SCORE))

\* chrono has no date for a year outside -262143 .. 262142.
HasDate(year) == year >= -262143 /\ year <= 262142

NoInstant == [year |-> 0, month |-> 0, day |-> 0, hour |-> 0]

\* Midnight EST (UTC-5) of the day in December, as a UTC instant.
Midnight(year, day) == [year |-> year, month |-> 12, day |-> day, hour |-> 5]

ReleaseTime(year, day) ==
    IF day = 0 \/ day > 25
    THEN [kind |-> "err", at |-> NoInstant]
    ELSE IF ~HasDate(year)
         THEN [kind |-> "panic", at |-> NoInstant]   \* .single().unwrap()
         ELSE [kind |-> "ok", at |-> Midnight(year, day)]

Pending == [panic |-> FALSE, value |-> 0]

ScoreInit ==
    /\ mode = "console"
    /\ now = 0
    /\ mutex = NoOne
    /\ file = [path \in Paths |-> NoFile]
    /\ pc = [p \in Procs |-> "idle"]
    /\ cur = [p \in Procs |-> NoCall]
    /\ last = NoCall
    /\ log = <<>>
    /\ \/ \E e1 \in Durations, e2 \in Durations, b \in Builds :
              calc = [fn |-> "score_puzzle", build |-> b,
                      time |-> <<e1, e2>>,
                      done |-> <<FALSE, FALSE>>,
                      score |-> <<Pending, Pending>>]
       \/ \E y \in Years, d \in 0..MaxDay :
              calc = [fn |-> "release_time", year |-> y, day |-> d,
                      done |-> FALSE,
                      release |-> [kind |-> "pending", at |-> NoInstant]]

\* One call score_puzzle(time[i]).
ScorePuzzleCall(i) ==
    /\ calc.fn = "score_puzzle"
    /\ ~calc.done[i]
    /\ calc' = [calc EXCEPT !.done[i] = TRUE,
                            !.score[i] = ScorePuzzle(calc.time[i], calc.build)]
    /\ UNCHANGED <<mode, now, mutex, file, pc, cur, last, log>>

\* One call release_time(year, day).
ReleaseTimeCall ==
    /\ calc.fn = "release_time"
    /\ ~calc.done
    /\ calc' = [calc EXCEPT !.done = TRUE,
                            !.release = ReleaseTime(calc.year, calc.day)]
    /\ UNCHANGED <<mode, now, mutex, file, pc, cur, last, log>>

ScoreNext ==
    \/ \E i \in 1..2 : ScorePuzzleCall(i)
    \/ ReleaseTimeCall

ScoreSpec == ScoreInit /\ [][ScoreNext]_vars

\* The call score_puzzle(time[i]) has returned or panicked.
Scored(i) == calc.fn = "score_puzzle" /\ calc.done[i]

\* The whole days of a non-negative duration.
WholeDays(e) == e \div (24 * 60 * 60)

\* C11: for an elapsed time of d >= 0 whole days score_puzzle returns 50 if
\* d <= 7 and max(50 - 5 * (d - 7), 10) otherwise.
C11_ScoreByDays ==
    \A i \in 1..2 :
        (Scored(i) /\ calc.time[i] >= 0) =>
            LET d == WholeDays(calc.time[i])
            IN  calc.score[i] =
                    [panic |-> FALSE,
                     value |-> IF d <= 7 THEN 50
                               ELSE IF 50 - 5 * (d - 7) >= 10
                                    THEN 50 - 5 * (d - 7) ELSE 10]

\* d = 0, 7, 8, 15 and 100 give 50, 50, 45, 10 and 10.
C11_Examples ==
    \A i \in 1..2 :
        Scored(i) =>
            /\ calc.time[i] = 0 => calc.score[i].value = 50
            /\ calc.time[i] = 7 * 24 * 60 * 60 => calc.score[i].value = 50
            /\ calc.time[i] = 8 * 24 * 60 * 60 => calc.score[i].value = 45
            /\ calc.time[i] = 15 * 24 * 60 * 60 => calc.score[i].value = 10
            /\ calc.time[i] = 100 * 24 * 60 * 60 => calc.score[i].value = 10

C11_Score == C11_ScoreByDays /\ C11_Examples

\* A call with 16 whole days, where only the floor of 10 decides, has returned
\* next to one with 8 whole days.
C11_Witness ==
    /\ Scored(1) /\ Scored(2)
    /\ WholeDays(calc.time[1]) = 8 /\ calc.time[1] > 0
    /\ calc.time[2] = 16 * 24 * 60 * 60 + 1
    /\ calc.score[1].value = 45
    /\ calc.score[2].value = 10

\* C12: for every completion time before the release (a negative elapsed
\* time of any size) score_puzzle takes the elapsed days as 0 and returns 50,
\* without overflow or panic.
C12_EarlyScoresMax ==
    \A i \in 1..2 :
        (Scored(i) /\ calc.time[i] < 0) => calc.score[i] = Value(MAX_SCORE)

\* The call release_time(year, day) has returned or panicked.
Released == calc.fn = "release_time" /\ calc.done

\* C13: release_time(year, day) returns an error exactly when day is outside
\* 1..25 and a release instant for every day from 1 to 25.
C13_ErrIffDayOutOfRange ==
    Released =>
        /\ calc.release.kind = "err" <=> ~(calc.day \in 1..25)
        /\ calc.day \in 1..25 => calc.release.kind = "ok"

\* What does hold of release_time, for the years that have a date: the error
\* exactly for a day outside 1..25 (0 and 26 among them), and for a day in
\* 1..25 the instant of midnight UTC-5 of that day of December, 05:00 UTC.
ReleaseTimeOfDatedYear ==
    (Released /\ calc.year \in -262143..262142) =>
        /\ calc.release.kind = "err" <=> ~(calc.day \in 1..25)
        /\ calc.day \in {0, 26} => calc.release.kind = "err"
        /\ calc.day \in 1..25 =>
               calc.release =
                   [kind |-> "ok",
                    at |-> [year |-> calc.year, month |-> 12,
                            day |-> calc.day, hour |-> 5]]

\* C14: for non-negative elapsed times e1 <= e2 the score of e1 is at least
\* the score of e2, and every score is between 10 and 50.
C14_Monotone ==
    /\ \A i \in 1..2 :
           (Scored(i) /\ calc.time[i] >= 0) =>
               /\ ~calc.score[i].panic
               /\ calc.score[i].value \in 10..50
    /\ \A i \in 1..2, j \in 1..2 :
           (/\ Scored(i) /\ Scored(j)
            /\ 0 <= calc.time[i] /\ calc.time[i] <= calc.time[j]) =>
               calc.score[i].value >= calc.score[j].value

\* Two calls with different scores, the earlier time scoring strictly more.
C14_Witness ==
    /\ Scored(1) /\ Scored(2)
    /\ 0 <= calc.time[1] /\ calc.time[1] < calc.time[2]
    /\ calc.score[1].value = 20
    /\ calc.score[2].value = 15

(* ------------------------------ claims on the cache, continued --------- *)

\* The call found no entry for its key, or one of age >= MIN_FETCH_INTERVAL.
MissOrStale(c) == ~c.pre.exists \/ Age(c) >= MIN_FETCH_INTERVAL

\* C15: a call made while its key has no entry, or an entry of age >= 15 (15
\* included), does not read or return the cached payload and attempts a network
\* request: it sends one, and an Ok result is the body received, unless reading the
\* modification time or building the HTTP client fails, which it reports.
C15_MissOrStaleRefreshes ==
    (last.done /\ MissOrStale(last)) =>
        /\ ~last.hit
        /\ "read" \notin last.failed
        /\ last.nsent <= 1
        /\ last.nsent = 0 =>
               (~last.ok /\ last.failed \cap {"modified", "build"} # {})
        /\ last.ok => last.val = last.response

\* C15 witness: an entry of age exactly 15 holding DocA was refreshed, the call
\* returning the DocB received.
C15_Witness ==
    /\ last.done /\ last.found /\ Age(last) = MIN_FETCH_INTERVAL
    /\ last.pre.content = DocA
    /\ last.nsent = 1 /\ last.ok /\ last.val = DocB

\* The callers inside fetch: about to check the cache, or suspended on the network.
Executing == {p \in Procs : pc[p] \in {"fetch", "await"}}

\* C16: in server mode at most one fetch of any key executes at any moment, cache
\* hit or refresh, and it is the holder of the lock: a fetch of another key does not
\* begin before the fetch in progress, network round trip included, has returned.
C16_OneFetchAtATime ==
    mode = "server" =>
        /\ Cardinality(Executing) <= 1
        /\ \A p \in Executing : mutex = p
        /\ \A p \in Procs : pc[p] = "lock" => cur[p] = [NoCall EXCEPT !.key = cur[p].key]

\* C16 witness: a handler's request for one key is in flight while a handler that
\* asked for another key, whose entry is fresh, waits for the lock.
C16_Witness ==
    /\ mode = "server"
    /\ \E p \in Procs, q \in Procs :
          /\ pc[p] = "await" /\ mutex = p
          /\ pc[q] = "lock" /\ cur[q].key # cur[p].key
          /\ LET f == file[PathOf[cur[q].key]]
             IN f.exists /\ LastModified(now, f.mtime) < MIN_FETCH_INTERVAL

\* The server, started on an empty cache directory, with its scheduling: a handler
\* that can take its next step again and again takes it. For Begin this is the runtime
\* running a task that is ready, for Lock the fairness of the mutex (a waiter gets the
\* guard once it is released), for Complete the end of every request on the network,
\* with a response or a failure. A handler has one next step at a time.
ServerInit == Init /\ mode = "server" /\ \A path \in Paths : ~file[path].exists

FairSpec ==
    /\ ServerInit
    /\ [][Next]_vars
    /\ \A p \in Procs : SF_vars(Lock(p) \/ Begin(p) \/ Complete(p))

\* C17: in server mode the lock is free again whenever a fetch has ended, with Ok or
\* with Err; a handler stops waiting for the lock only by acquiring it; and, every
\* network request ending, every handler that waits for the lock or is inside fetch
\* gets to the return of its fetch.
C17_LockReleasedFetchReturns ==
    /\ [][\A p \in Procs :
             /\ (pc[p] \in {"fetch", "await"} /\ pc'[p] = "idle") => mutex' = NoOne
             /\ (pc[p] = "lock" /\ pc'[p] # "lock") =>
                    (mutex = NoOne /\ mutex' = p /\ pc'[p] = "fetch")]_vars
    /\ \A p \in Procs : (pc[p] \in {"lock", "fetch", "await"}) ~> (pc[p] = "idle")

\* C17 witness: a fetch has ended with the error of its request and a handler that
\* asked for the same key now holds the lock.
C17_Witness ==
    /\ mode = "server"
    /\ last.done /\ ~last.ok /\ "send" \in last.failed
    /\ \E q \in Procs : mutex = q /\ pc[q] = "fetch" /\ cur[q].key = last.key

\* The program started while the clock reads one minute less than the modification
\* time of the cache files it finds (the clock was set back, or the files carry a
\* time in the future). Every key has such a file.
SkewInit ==
    /\ mode \in {"server", "console"}
    /\ now \in {m - 1 : m \in InitMtimes}
    /\ mutex = NoOne
    /\ file \in [Paths ->
                  {[exists |-> TRUE, content |-> DocA, mtime |-> m] : m \in InitMtimes}]
    /\ pc = [p \in Procs |-> "idle"]
    /\ cur = [p \in Procs |-> NoCall]
    /\ last = NoCall
    /\ log = <<>>
    /\ calc = NoCalc

SkewSpec == SkewInit /\ [][Next]_vars

SampleKeys == {<<y, i>> : y \in {-1, 1, 11, 111, 2023, 2024}, i \in {1, 7, 11, 17}}

\* C19: distinct keys have distinct cache files, and the file of a key changes only in
\* a step of a fetch of that key (the completion of its request): a fetch of one key,
\* served from the cache, refreshing or failing, leaves the payload and the
\* modification time of every other key's entry as they were, and what it found and
\* left is the file of its own key.
C19_KeysIsolated ==
    /\ \A k1 \in Keys \cup SampleKeys, k2 \in Keys \cup SampleKeys :
           CachePath(k1) = CachePath(k2) => k1 = k2
    /\ [][\A k \in Keys :
            file'[PathOf[k]] # file[PathOf[k]] =>
                \E p \in Procs : /\ pc[p] = "await" /\ pc'[p] # "await"
                                 /\ cur[p].key = k
                                 /\ last'.key = k
                                 /\ last'.post = file'[PathOf[k]]]_vars
    /\ [][\A p \in Procs :
            (pc[p] \in {"fetch", "await"} /\ pc'[p] \notin {"fetch", "await"}) =>
                /\ last'.key = cur[p].key
                /\ \A k \in Keys \ {cur[p].key} :
                       file'[PathOf[k]] = file[PathOf[k]]]_vars

\* C19 witness: the entry of one key was replaced by a refresh, DocB for DocA, while
\* the entry of the other key still is the file the program started with.
C19_Witness ==
    /\ last.done /\ last.nsent = 1 /\ last.ok
    /\ last.pre.content = DocA /\ last.post.content = DocB
    /\ file[PathOf[last.key]] = last.post
    /\ \E k \in Keys \ {last.key} :
           \E m \in InitMtimes :
               file[PathOf[k]] = [exists |-> TRUE, content |-> DocA, mtime |-> m]

====
